---- MODULE Spec2Model ----
(***************************************************************************)
(* A model of the record-transfer pipeline of es_app:                      *)
(*   - Pipe (src/api/es_app/pipe.py): gen_data_source, yield_flow and      *)
(*     auto_flow, as generators that are started, resumed and abandoned    *)
(*     by a single-threaded consumer;                                      *)
(*   - ElasticParse.get_fips (src/api/es_app/parse.py): the bounded        *)
(*     retry loop of the geocode lookup;                                   *)
(*   - the pure functions of both files (get_fips scope trimming, id       *)
(*     generation, record transformation, action construction), each       *)
(*     applied to an argument drawn from a bounded set.                    *)
(* Python runs one frame at a time: a call of the consumer runs the code   *)
(* of the invocation up to its next yield, return or raise.                *)
(* Source rows are numbered 1..rows in the order the cursor returns them.  *)
(***************************************************************************)
EXTENDS Integers, Sequences, FiniteSets, TLC

\* ---------------------------------------------------------------- bounds
MaxRows == 2
MaxChunk == 2
MaxLimit == 1
MaxRuns == 2
MaxTracked == 8
MaxCoord == 1
MaxStr == 1
MaxCases == 1
MaxCalls == 2
MaxEntries == 2

\* ------------------------------------------------------ program constants
\* parse.py line 77: `if attempts > 5: raise`
RetryThreshold == 5

VARIABLES
    limit,          \* Pipe.limit (-1: unbounded)
    rows,           \* number of rows the query returns
    transfer_count, \* Pipe.transfer_count
    chunk_size,     \* the chunk_size the consumer passes to the methods
    run,            \* per invocation of a method of Pipe: its frames (below)
    f_pc,           \* ElasticParse.get_fips: position in the retry loop
    attempts,       \* ElasticParse.get_fips: attempts
    calls,          \* number of requests.get calls made
    delays,         \* the arguments of sleep(), in order
    log,            \* the outcome of each request, in order
    arg,            \* the argument of the function under study
    res,            \* what the function returned or raised
    op              \* which function was applied ("idle": none yet)

pipeVars == <<limit, rows, transfer_count, chunk_size, run>>

fipsVars == <<f_pc, attempts, calls, delays, log>>

callVars == <<arg, res, op>>

vars == <<pipeVars, fipsVars, callVars>>

Runs == 1..MaxRuns

Min(a, b) == IF a <= b THEN a ELSE b

\* =====================================================================
\* Pipe
\* =====================================================================

\* The frames of one invocation before any of its code has run:
\*   kind           which method was called
\*   pc             position in the code
\*   reader         state of its gen_data_source generator
\*   cursor         pg_cursor: "none", "open", "closed" (close() was called)
\*   fetched        rows fetched through the cursor so far
\*   stream_live    truthiness of _data_stream
\*   data_stream    the batch last returned by fetchmany
\*   idx            position of the for loop in the batch
\*   yielded        the records gen_data_source has yielded, in order
\*   bulk_actions   the chunk streaming_bulk is filling
\*   held           the record / action in hand (0: none)
\*   results        results of the flushed chunk not yet yielded by the sink
\*   submitted      the actions sent to the store, in order
\*   track_session  yield_flow's track_session
\*   lines          the counts of the progress lines emitted, in order
\*   fetches        what held each time fetchmany was issued (history)
NewRun ==
    [kind |-> "none", pc |-> "new", reader |-> "unstarted",
     cursor |-> "none", fetched |-> 0, stream_live |-> TRUE,
     data_stream |-> <<>>, idx |-> 0, yielded |-> <<>>, bulk_actions |-> <<>>,
     held |-> 0, results |-> 0, submitted |-> <<>>, track_session |-> 0,
     lines |-> <<>>, fetches |-> {}]

\* Pipe.__init__ (limit, transfer_count = 0) and a source of `rows` rows;
\* no method has been called yet.  The consumer of a behaviour passes the
\* same chunk_size to every method it calls.
PipeInit ==
    /\ limit \in -1..MaxLimit
    /\ rows \in 0..MaxRows
    /\ transfer_count = 0
    /\ chunk_size \in 1..MaxChunk
    /\ run = [g \in Runs |-> NewRun]

\* Invocations are numbered in the order they are made.
FreeSlot(g) ==
    run[g].pc = "new" /\ (IF g = 1 THEN TRUE ELSE run[g - 1].pc # "new")

\* ---------------------------------------------------------------------
\* The code of one invocation, step by step.  A step takes s = [r |-> the
\* invocation's frames, tc |-> self.transfer_count] to the state after it.
\* ---------------------------------------------------------------------

IsFlow(s) == s.r.kind \in {"yield_flow", "auto_flow"}

\* An exception leaves the invocation: every frame of it is unwound.  No
\* frame has a finally or a with block, so nothing else runs.
Propagate(s) == [s EXCEPT !.r.pc = "FAILED"]

\* gen_pg_client(), pg_connect.cursor(...), pg_cursor.execute(query),
\* _data_stream = True.  The connection or the query may fail.
Execute(s, outcome) ==
    IF outcome = "ok"
    THEN [s EXCEPT !.r.cursor = "open", !.r.stream_live = TRUE, !.r.pc = "while"]
    ELSE Propagate([s EXCEPT !.r.cursor = IF outcome = "connect_error"
                                          THEN "none" ELSE "open",
                             !.r.reader = "raised"])

\* A loop that goes on while rows come, whatever the count.
WhileCondUnlimited(s) == s.r.stream_live

\* The condition of the while loop of the branch taken for this limit.
WhileCond(s) ==
    IF limit = -1
    THEN s.r.stream_live
    ELSE s.r.stream_live /\ s.tc < limit

While(s) == [s EXCEPT !.r.pc = IF WhileCond(s) THEN "fetchmany" ELSE "close"]

\* pg_cursor.fetchmany(n): the next n rows of the result, fewer at its end.
FetchMany(s, n) ==
    [i \in 1..Min(n, rows - s.r.fetched) |-> s.r.fetched + i]

\* What holds when fetchmany(n) is issued: the rows fetched and not yet
\* yielded, whether the last batch was empty, whether transfer_count has
\* reached the limit, and n.
Issued(s, n) ==
    [unyielded |-> s.r.fetched - Len(s.r.yielded),
     after_empty |-> ~s.r.stream_live,
     limit_reached |-> (limit # -1 /\ s.tc >= limit),
     asked |-> n]

\* _data_stream = pg_cursor.fetchmany(chunk_size), and the for loop starts;
\* the fetch may fail.
Fetch(s, outcome) ==
    LET t == [s EXCEPT !.r.fetches = @ \cup {Issued(s, chunk_size)}]
    IN IF outcome = "ok"
       THEN LET batch == FetchMany(t, chunk_size)
            IN [t EXCEPT !.r.data_stream = batch,
                         !.r.fetched = @ + Len(batch),
                         !.r.stream_live = (batch # <<>>),
                         !.r.idx = 1,
                         !.r.pc = "for"]
       ELSE Propagate([t EXCEPT !.r.reader = "raised"])

\* The item the for loop is at.
CurrentItemReversed(s) == s.r.data_stream[Len(s.r.data_stream) - s.r.idx + 1]
CurrentItem(s) == s.r.data_stream[s.r.idx]

\* for item in map(dict, _data_stream): yield item.  The generator is
\* suspended at the yield; the item goes to the consumer, or in a flow to
\* map(self.gen_action_from_data, ...).  An exhausted batch ends the loop.
For(s) ==
    IF s.r.idx <= Len(s.r.data_stream)
    THEN [s EXCEPT !.r.yielded = Append(@, CurrentItem(s)),
                   !.r.reader = "at_yield",
                   !.r.held = IF IsFlow(s) THEN CurrentItem(s) ELSE @,
                   !.r.pc = IF IsFlow(s) THEN "transform" ELSE "suspended"]
    ELSE [s EXCEPT !.r.pc = "while"]

\* `if self.transfer_count >= self.limit: break`, in the limit branch only.
LimitReachedLate(tc) == limit # -1 /\ tc > limit
LimitReached(tc) == limit # -1 /\ tc >= limit

\* The generator is resumed after the yield: self.transfer_count += 1, then
\* the break test, then the next turn of the for loop.
Resume(s) ==
    IF LimitReached(s.tc + 1)
    THEN [s EXCEPT !.tc = @ + 1, !.r.reader = "running", !.r.pc = "while"]
    ELSE [s EXCEPT !.tc = @ + 1, !.r.reader = "running", !.r.idx = @ + 1,
                   !.r.pc = "for"]

\* pg_cursor.close() and the end of the generator: StopIteration reaches the
\* consumer, or in a flow ends the for loop of the chunker.
Close(s) ==
    [s EXCEPT !.r.cursor = "closed",
              !.r.reader = "returned",
              !.r.pc = IF IsFlow(s) THEN "chunk_end" ELSE "COMPLETE"]

\* The chunker of streaming_bulk asks source for the next action:
\* map() asks the gen_data_source generator for the next record.
Pull(s) ==
    [s EXCEPT !.r.pc = IF s.r.reader = "unstarted" THEN "execute" ELSE "resume"]

\* self.gen_action_from_data(item): the action of the record, or an
\* exception of a cast, of county_gen_id or of the geocode lookup.  The
\* reader stays suspended at its yield.
Transform(s, outcome) ==
    IF outcome = "ok" THEN [s EXCEPT !.r.pc = "chunk"] ELSE Propagate(s)

\* streaming_bulk(client, source, chunk_size) cuts a chunk when it holds
\* chunk_size actions and another one arrives.
ChunkFullEarly(s) == Len(s.r.bulk_actions) >= 1
ChunkFull(s) == Len(s.r.bulk_actions) = chunk_size

\* The chunker receives an action: a full chunk is handed over first (the
\* action stays in hand), otherwise the action joins the chunk and the
\* next one is asked for.
Chunk(s) ==
    IF s.r.bulk_actions # <<>> /\ ChunkFull(s)
    THEN [s EXCEPT !.r.pc = "flush"]
    ELSE [s EXCEPT !.r.bulk_actions = Append(@, s.r.held),
                   !.r.held = 0,
                   !.r.pc = "pull"]

\* A chunker that drops the last, partial chunk.
ChunkEndDropsLast(s) == [s EXCEPT !.r.pc = "COMPLETE"]

\* The source is exhausted: a last, partial chunk is handed over; with
\* nothing in hand the sink ends, and with it the flow.
ChunkEnd(s) ==
    [s EXCEPT !.r.pc = IF s.r.bulk_actions # <<>> THEN "flush" ELSE "COMPLETE"]

\* The chunk is sent to the store in one bulk request, which answers with one
\* result per action, or fails.
Flush(s, outcome) ==
    IF outcome = "ok"
    THEN [s EXCEPT !.r.submitted = @ \o s.r.bulk_actions,
                   !.r.results = Len(s.r.bulk_actions),
                   !.r.pc = "sink_next"]
    ELSE Propagate(s)

\* `for _ in sink`: the sink yields the next result of the flushed chunk; when
\* none is left the chunker goes on: it ends after the last chunk, and
\* otherwise starts a new chunk with the action in hand and pulls again.
SinkNext(s) ==
    IF s.r.results > 0
    THEN [s EXCEPT !.r.results = @ - 1, !.r.pc = "flow_body"]
    ELSE IF s.r.reader = "returned"
    THEN [s EXCEPT !.r.bulk_actions = <<>>, !.r.pc = "COMPLETE"]
    ELSE [s EXCEPT !.r.bulk_actions = IF s.r.held = 0 THEN <<>> ELSE <<s.r.held>>,
                   !.r.held = 0,
                   !.r.pc = "pull"]

\* `if not track_session == self.transfer_count`
ShouldReportAlways(s) == TRUE
ShouldReport(s) == ~(s.r.track_session = s.tc)

\* A body whose line also counts the action the chunker has in hand.
FlowBodyCountsPulled(s) ==
    IF s.r.kind = "yield_flow" /\ ShouldReport(s)
    THEN [s EXCEPT !.r.lines = Append(@, s.tc + IF s.r.held # 0 THEN 1 ELSE 0),
                   !.r.pc = "suspended"]
    ELSE [s EXCEPT !.r.pc = "sink_next"]

\* The body of the for loop over the sink.  yield_flow yields a progress
\* line when the count has changed since the last one and is suspended
\* there; auto_flow continues.
FlowBody(s) ==
    IF s.r.kind = "yield_flow" /\ ShouldReport(s)
    THEN [s EXCEPT !.r.lines = Append(@, s.tc), !.r.pc = "suspended"]
    ELSE [s EXCEPT !.r.pc = "sink_next"]

\* The positions at which the consumer has control.
Quiescent == {"new", "created", "suspended", "COMPLETE", "FAILED", "abandoned"}

\* The steps that call the database, the lookup or the store.
Fallible == {"execute", "fetchmany", "transform", "flush"}

\* The step at the invocation's position.
Step(s, outcome) ==
    CASE s.r.pc = "execute" -> Execute(s, outcome)
      [] s.r.pc = "while" -> While(s)
      [] s.r.pc = "fetchmany" -> Fetch(s, outcome)
      [] s.r.pc = "for" -> For(s)
      [] s.r.pc = "resume" -> Resume(s)
      [] s.r.pc = "close" -> Close(s)
      [] s.r.pc = "pull" -> Pull(s)
      [] s.r.pc = "transform" -> Transform(s, outcome)
      [] s.r.pc = "chunk" -> Chunk(s)
      [] s.r.pc = "chunk_end" -> ChunkEnd(s)
      [] s.r.pc = "flush" -> Flush(s, outcome)
      [] s.r.pc = "sink_next" -> SinkNext(s)
      [] s.r.pc = "flow_body" -> FlowBody(s)

\* The outcome of the n-th call of the database, the lookup or the store
\* made from here, under fault f: f = 0, none fails; f = n > 0, the n-th
\* fails; f = -1, the connection of gen_pg_client() fails.
Outcome(s, f) ==
    IF s.r.pc = "execute" /\ f = -1 THEN "connect_error"
    ELSE IF f = 1 THEN "error"
    ELSE "ok"

\* Python runs the invocation until it yields, returns or raises.  (The
\* state after a step is bound to a name, `next`, so that it is computed
\* once however often the steps after it read it.)
RECURSIVE RunOn(_, _)
RunOn(s, f) ==
    IF s.r.pc \in Quiescent THEN s
    ELSE IF s.r.pc \in Fallible
    THEN CHOOSE end \in {RunOn(next, IF f > 0 THEN f - 1 ELSE 0) :
                             next \in {Step(s, Outcome(s, f))}} : TRUE
    ELSE CHOOSE end \in {RunOn(next, f) : next \in {Step(s, "ok")}} : TRUE

\* The number of calls of the database, the lookup and the store made from
\* here when none fails.
RECURSIVE CallsOn(_)
CallsOn(s) ==
    IF s.r.pc \in Quiescent THEN 0
    ELSE IF s.r.pc \in Fallible
    THEN 1 + CallsOn(Step(s, "ok"))
    ELSE CallsOn(Step(s, "ok"))

\* The faults the environment may inject into a run from r.
Faults(r) ==
    LET s == [r |-> r, tc |-> transfer_count]
    IN (IF r.reader = "unstarted" THEN {-1} ELSE {}) \cup 0..CallsOn(s)

\* What is left of an invocation whose frames are gone (it returned, raised
\* or was closed): what it did to the world, and no local variable.
Retired(r) ==
    [NewRun EXCEPT !.kind = r.kind, !.pc = r.pc, !.reader = r.reader,
                   !.cursor = r.cursor, !.yielded = r.yielded,
                   !.submitted = r.submitted, !.lines = r.lines,
                   !.fetches = r.fetches]

\* The invocation g runs on from r under fault f, and the Pipe afterwards.
Enter(g, r, f) ==
    LET s == RunOn([r |-> r, tc |-> transfer_count], f)
    IN /\ run' = [run EXCEPT ![g] = IF s.r.pc \in {"COMPLETE", "FAILED"}
                                    THEN Retired(s.r) ELSE s.r]
       /\ transfer_count' = s.tc

\* ---- the consumer ----------------------------------------------------

\* p.gen_data_source(chunk_size): creates the generator, runs none of its body.
CallGenDataSource(g) ==
    /\ FreeSlot(g)
    /\ run' = [run EXCEPT ![g] = [@ EXCEPT !.kind = "gen_data_source",
                                           !.pc = "created"]]
    /\ UNCHANGED <<limit, rows, transfer_count, chunk_size, fipsVars, callVars>>

\* A yield_flow that is an ordinary function: the call itself runs the body
\* up to the first progress line.
CallYieldFlowEager(g) ==
    /\ FreeSlot(g)
    /\ LET r == [run[g] EXCEPT !.kind = "yield_flow", !.pc = "sink_next"]
       IN \E f \in Faults(r) : Enter(g, r, f)
    /\ UNCHANGED <<limit, rows, chunk_size, fipsVars, callVars>>

\* p.yield_flow(chunk_size): creates the generator, runs none of its body.
CallYieldFlow(g) ==
    /\ FreeSlot(g)
    /\ run' = [run EXCEPT ![g] = [@ EXCEPT !.kind = "yield_flow",
                                           !.pc = "created"]]
    /\ UNCHANGED <<limit, rows, transfer_count, chunk_size, fipsVars, callVars>>

\* p.auto_flow(chunk_size): an ordinary call; builds source and sink and runs the
\* for loop over the sink to its end.
CallAutoFlow(g) ==
    /\ FreeSlot(g)
    /\ LET r == [run[g] EXCEPT !.kind = "auto_flow",
                               !.pc = "sink_next"]
       IN \E f \in Faults(r) : Enter(g, r, f)
    /\ UNCHANGED <<limit, rows, chunk_size, fipsVars, callVars>>

\* next() on a gen_data_source generator held by the consumer.
NextItem(g) ==
    /\ run[g].kind = "gen_data_source"
    /\ run[g].pc \in {"created", "suspended"}
    /\ LET r == [run[g] EXCEPT !.pc = IF run[g].reader = "unstarted"
                                      THEN "execute" ELSE "resume"]
       IN \E f \in Faults(r) : Enter(g, r, f)
    /\ UNCHANGED <<limit, rows, chunk_size, fipsVars, callVars>>

\* next() on a yield_flow generator: the first one builds source and sink and
\* sets track_session = 0; a later one resumes after the yield, where
\* track_session = self.transfer_count; both then ask the sink for a result.
NextMessage(g) ==
    /\ run[g].kind = "yield_flow"
    /\ run[g].pc \in {"created", "suspended"}
    /\ LET r == [run[g] EXCEPT !.track_session = IF run[g].pc = "created"
                                                 THEN 0 ELSE transfer_count,
                               !.pc = "sink_next"]
       IN \E f \in Faults(r) : Enter(g, r, f)
    /\ UNCHANGED <<limit, rows, chunk_size, fipsVars, callVars>>

\* The consumer drops a generator it has not exhausted.  Python closes it:
\* GeneratorExit is raised at the yield, and as gen_data_source has no
\* try/finally, nothing of its body runs; pg_cursor.close() is not reached.
Abandon(g) ==
    /\ run[g].kind \in {"gen_data_source", "yield_flow"}
    /\ run[g].pc \in {"created", "suspended"}
    /\ run' = [run EXCEPT ![g] = Retired([@ EXCEPT !.pc = "abandoned",
                                                   !.reader = "closed"])]
    /\ UNCHANGED <<limit, rows, transfer_count, chunk_size, fipsVars, callVars>>

PipeNext ==
    \/ \E g \in Runs : CallGenDataSource(g)
    \/ \E g \in Runs : CallYieldFlow(g)
    \/ \E g \in Runs : CallAutoFlow(g)
    \/ \E g \in Runs : NextItem(g)
    \/ \E g \in Runs : NextMessage(g)
    \/ \E g \in Runs : Abandon(g)

\* =====================================================================
\* ElasticParse.get_fips
\* =====================================================================

RECURSIVE Pow2(_)
Pow2(n) == IF n = 0 THEN 1 ELSE 2 * Pow2(n - 1)

\* response = None, attempts = 0.
FipsInit ==
    /\ f_pc = "request"
    /\ attempts = 0
    /\ calls = 0
    /\ delays = <<>>
    /\ log = <<>>

\* Counters and histories are tracked up to MaxTracked, beyond which the
\* loop behaves as at MaxTracked (attempts > RetryThreshold either way).
Tick(n) == Min(n + 1, MaxTracked)

Track(s, x) == IF Len(s) < MaxTracked THEN Append(s, x) ELSE s

\* `if attempts > 5: raise`
BudgetSpent(n) == n > RetryThreshold

\* One turn of `while response is None` up to the sleep: requests.get raises
\* (re-raised once the budget is spent), answers outside 2xx (response is
\* reset to None), or answers 2xx (the JSON body is returned).
Request ==
    /\ f_pc = "request"
    /\ \E outcome \in {"exception", "status", "ok"} :
        /\ log' = Track(log, outcome)
        /\ f_pc' = CASE outcome = "exception" /\ BudgetSpent(attempts) -> "raised"
                     [] outcome = "ok" -> "returned"
                     [] OTHER -> "sleep"
    /\ calls' = Tick(calls)
    /\ UNCHANGED <<attempts, delays>>

\* sleep(pow(2, attempts)); attempts += 1
Sleep ==
    /\ f_pc = "sleep"
    /\ delays' = Track(delays, Pow2(attempts))
    /\ attempts' = Tick(attempts)
    /\ f_pc' = "request"
    /\ UNCHANGED <<calls, log>>

FipsNext ==
    \/ Request
    \/ Sleep

\* =====================================================================
\* Specifications
\* =====================================================================

\* No function is under study.
CallIdle ==
    /\ arg = <<>>
    /\ res = <<>>
    /\ op = "idle"

Init == PipeInit /\ FipsInit /\ CallIdle

Next == PipeNext

\* The pipeline, driven by its consumer.
Spec == Init /\ [][Next]_vars

FipsStep ==
    \/ Request /\ UNCHANGED <<pipeVars, callVars>>
    \/ Sleep /\ UNCHANGED <<pipeVars, callVars>>

\* A Pipe nobody uses.
PipeIdle ==
    /\ PipeInit
    /\ limit = -1
    /\ rows = 0
    /\ chunk_size = 1

FipsStart ==
    /\ FipsInit
    /\ PipeIdle
    /\ CallIdle

\* One call of ElasticParse.get_fips.  The call is a loop of blocking steps
\* on one thread: a step that can be taken is taken.
FipsSpec == FipsStart /\ [][FipsStep]_vars /\ WF_vars(FipsStep)

\* p.auto_flow(chunk_size) when the database answers, every lookup succeeds
\* and the store accepts every batch.
AutoFlowAccepted(g) ==
    /\ FreeSlot(g)
    /\ Enter(g, [run[g] EXCEPT !.kind = "auto_flow", !.pc = "sink_next"], 0)
    /\ UNCHANGED <<limit, rows, chunk_size, fipsVars, callVars>>

\* next() on a yield_flow generator, likewise.
NextMessageAccepted(g) ==
    /\ run[g].kind = "yield_flow"
    /\ run[g].pc \in {"created", "suspended"}
    /\ Enter(g, [run[g] EXCEPT !.track_session = IF run[g].pc = "created"
                                                 THEN 0 ELSE transfer_count,
                               !.pc = "sink_next"], 0)
    /\ UNCHANGED <<limit, rows, chunk_size, fipsVars, callVars>>

FlowNext ==
    \/ \E g \in Runs : CallYieldFlow(g)
    \/ \E g \in Runs : AutoFlowAccepted(g)
    \/ \E g \in Runs : NextMessageAccepted(g)

\* Runs of the pipeline over a finite source with nothing failing; the
\* consumer of a yield_flow generator goes on asking for the next message.
FlowSpec ==
    /\ Init
    /\ [][FlowNext]_vars
    /\ \A g \in Runs : WF_vars(NextMessageAccepted(g))

LazyNext ==
    \/ \E g \in Runs : CallYieldFlow(g)
    \/ \E g \in Runs : NextMessage(g)
    \/ \E g \in Runs : Abandon(g)

\* yield_flow generators of one Pipe in the hands of their consumer, which
\* asks them for messages in any order or drops them; any call may fail.
LazySpec == Init /\ [][LazyNext]_vars

\* =====================================================================
\* pipe.py get_fips: trimming the lookup response to the scope
\* =====================================================================

\* The keys of a lookup response the function looks at.
FipsKeys == {"State", "County", "Block"}

Coords == 0..MaxCoord

\* fips_api.format(latitude=lat, longitude=lon)
FipsUrl(lat, lon) == <<"latitude", lat, "longitude", lon>>

\* if scope < 2 and 'Block' in resj: del resj['Block']
TrimBlock(resj, scope) ==
    IF scope < 2 /\ "Block" \in resj THEN resj \ {"Block"} ELSE resj

\* if scope < 1 and 'County' in resj: del resj['State']
\* del of a key the dict does not hold raises KeyError.
TrimCounty(resj, scope) ==
    IF scope < 1 /\ "County" \in resj
    THEN IF "State" \in resj
         THEN [raised |-> "", keys |-> resj \ {"State"}]
         ELSE [raised |-> "KeyError", keys |-> {}]
    ELSE [raised |-> "", keys |-> resj]

\* The body of get_fips once the request has succeeded with a response
\* holding the keys resj.
PipeGetFips(lat, lon, scope, resj) ==
    [url |-> FipsUrl(lat, lon)] @@ TrimCounty(TrimBlock(resj, scope), scope)

ScopeArgs ==
    [lat : Coords, lon : Coords, scope : 0..2, resj : SUBSET FipsKeys]

CallGetFips ==
    /\ op = "idle"
    /\ op' = "get_fips"
    /\ res' = PipeGetFips(arg.lat, arg.lon, arg.scope, arg.resj)
    /\ UNCHANGED <<arg, pipeVars, fipsVars>>

ScopeStart ==
    /\ PipeIdle
    /\ FipsInit
    /\ arg \in ScopeArgs
    /\ res = <<>>
    /\ op = "idle"

\* One call of pipe.get_fips whose request succeeds.
ScopeSpec == ScopeStart /\ [][CallGetFips]_vars

\* =====================================================================
\* Identifiers: ElasticParse.gen_id (parse.py) and county_gen_id (pipe.py)
\* =====================================================================

\* A str is a sequence of characters.
Alphabet == {"a", "b"}

RECURSIVE StrsOfLen(_)
StrsOfLen(n) ==
    IF n = 0 THEN {<<>>}
    ELSE {Append(s, c) : s \in StrsOfLen(n - 1), c \in Alphabet}

Strs == UNION {StrsOfLen(n) : n \in 0..MaxStr}

\* A field of a dict: absent (no such key), null (None) or a value.
Opt(S, dflt) ==
    {[k |-> "absent", v |-> dflt], [k |-> "null", v |-> dflt]}
        \cup [k : {"val"}, v : S]

\* dict.get(key) is None for an absent key as for a null value.
IsNone(x) == x.k # "val"

Digit(d) ==
    CASE d = 0 -> "0" [] d = 1 -> "1" [] d = 2 -> "2" [] d = 3 -> "3"
      [] d = 4 -> "4" [] d = 5 -> "5" [] d = 6 -> "6" [] d = 7 -> "7"
      [] d = 8 -> "8" [] d = 9 -> "9"

\* str(n) of a natural number
RECURSIVE StrOfNat(_)
StrOfNat(n) ==
    IF n < 10 THEN <<Digit(n)>>
    ELSE Append(StrOfNat(n \div 10), Digit(n % 10))

NoneStr == <<"N", "o", "n", "e">>

\* str(x) of a number or None
StrOfNum(x) == IF IsNone(x) THEN NoneStr ELSE StrOfNat(x.v)

\* str(x) of a str or None
StrOfStr(x) == IF IsNone(x) THEN NoneStr ELSE x.v

\* md5(seed.encode('utf-8')).hexdigest(): a function of the seed alone,
\* taken to have no collisions.
Md5(seed) == <<"md5", seed>>

Returned(id) == [raised |-> "", id |-> id]

Raised(what) == [raised |-> what, id |-> <<>>]

\* head = entry.get('county') or (entry.get('lat'), entry.get('lon'))
\* if isinstance(head, tuple): head = ''.join(map(str, head))
\* An empty county is falsy like None; the tuple is always truthy.
GenIdHead(entry) ==
    IF ~IsNone(entry.county) /\ entry.county.v # <<>>
    THEN entry.county.v
    ELSE StrOfNum(entry.lat) \o StrOfNum(entry.lon)

\* A tail that also reads a field outside the identity.
GenIdTailCounting(entry) ==
    StrOfStr(entry.scrape_group) \o StrOfNat(entry.cases)

\* tail = str(entry.get('scrape_group'))
GenIdTail(entry) == StrOfStr(entry.scrape_group)

\* seed = ''.join((head, body, tail)), body = entry.get('state'):
\* str.join raises TypeError on an item that is None.
GenId(entry) ==
    IF IsNone(entry.state)
    THEN Raised("TypeError")
    ELSE Returned(Md5(GenIdHead(entry) \o entry.state.v \o GenIdTail(entry)))

\* datetime.isoformat(): one fixed-width text per instant.
IsoFormat(t) == <<"T">> \o StrOfNat(t) \o <<":">>

\* item.get(key, ''): '' for an absent key, None for a null value.
GetOrEmpty(x) == IF x.k = "absent" THEN [k |-> "val", v |-> <<>>] ELSE x

\* head = dt_to_str(item.get('access_time')): None has no isoformat.
\* raw = head + ''.join([item.get(key, '') for key in
\*                       ['country', 'state', 'county_name']])
CountyGenId(item) ==
    IF IsNone(item.access_time)
    THEN Raised("AttributeError")
    ELSE IF \E key \in {"country", "state", "county_name"} :
                IsNone(GetOrEmpty(item[key]))
         THEN Raised("TypeError")
         ELSE Returned(Md5(IsoFormat(item.access_time.v)
                           \o GetOrEmpty(item.country).v
                           \o GetOrEmpty(item.state).v
                           \o GetOrEmpty(item.county_name).v))

\* The identity fields of an entry of ElasticParse.
ParseIdents ==
    [county : Opt(Strs, <<>>), lat : Opt(Coords, 0), lon : Opt(Coords, 0),
     state : Opt(Strs, <<>>), scrape_group : Opt(Strs, <<>>)]

\* The identity fields of a row handed to county_gen_id.
CountyIdents ==
    [access_time : Opt(Coords, 0), country : Opt(Strs, <<>>),
     state : Opt(Strs, <<>>), county_name : Opt(Strs, <<>>)]

\* The other fields: a count, and the time the call is made at.
Others == [cases : 0..MaxCases, now : 0..MaxCases]

\* ElasticParse.gen_id(entry), entry holding the identity fields of arg and
\* any other fields.
CallGenId ==
    /\ arg.fn = "gen_id"
    /\ Len(res) < MaxCalls
    /\ \E o \in Others :
           res' = Append(res, GenId(arg.ident @@ o) @@ [cases |-> o.cases])
    /\ op' = "gen_id"
    /\ UNCHANGED <<arg, pipeVars, fipsVars>>

\* county_gen_id(item), likewise.
CallCountyGenId ==
    /\ arg.fn = "county_gen_id"
    /\ Len(res) < MaxCalls
    /\ \E o \in Others :
           res' = Append(res, CountyGenId(arg.ident @@ o) @@ [cases |-> o.cases])
    /\ op' = "county_gen_id"
    /\ UNCHANGED <<arg, pipeVars, fipsVars>>

IdStart ==
    /\ PipeIdle
    /\ FipsInit
    /\ \/ arg \in [fn : {"gen_id"}, ident : ParseIdents]
       \/ arg \in [fn : {"county_gen_id"}, ident : CountyIdents]
    /\ res = <<>>
    /\ op = "idle"

IdNext ==
    \/ CallGenId
    \/ CallCountyGenId

\* Identifiers computed for records with given identity fields.
IdSpec == IdStart /\ [][IdNext]_vars

\* =====================================================================
\* Documents and actions: ElasticParse (parse.py) and Pipe (pipe.py)
\* =====================================================================

\* A dict is modelled by the set of its keys and the values studied.
NoDoc == [keys |-> {}, coordinates |-> <<>>, fips |-> {}]

NoAction == [keys |-> {}, op_type |-> "", id |-> <<>>, doc |-> NoDoc]

\* The keys an entry holds.
KeysOf(entry) == {key \in DOMAIN entry : entry[key].k # "absent"}

\* lat and lon are None unless popped from the entry (lines 89-94);
\* `if lat is not None and lon is not None` (line 95)
EntryHasPoint(entry) == ~IsNone(entry.lat) /\ ~IsNone(entry.lon)

\* datetime.strptime(text, format): KeyError when doc['access_time'] is
\* absent, TypeError when it is None, ValueError when the text does not
\* match the format.
Strptime(x) ==
    CASE x.k = "absent" -> "KeyError"
      [] x.k = "null" -> "TypeError"
      [] x.v = "malformed" -> "ValueError"
      [] OTHER -> ""

\* `if isinstance(doc.get('updated'), str)`: only a str is parsed.
UpdatedParse(x) == IF IsNone(x) THEN "" ELSE Strptime(x)

\* The keys of doc at the end of entry_to_act: entry.copy() without lat and
\* lon, with geometry and fips for a point, state renamed, page dropped.
EntryDocKeys(entry) ==
    LET copied == KeysOf(entry) \ {"lat", "lon"}
        located == IF EntryHasPoint(entry)
                   THEN copied \cup {"geometry", "fips"} ELSE copied
        renamed == (located \ {"state"}) \cup {"province/state"}
    IN renamed \ {"page"}

\* doc = entry: the same dict under a second name.
EntryAlias(entry) == [doc |-> entry, aliased |-> TRUE]

\* doc: Doc = entry.copy(): a new dict with the entry's items.
EntryCopy(entry) == [doc |-> entry, aliased |-> FALSE]

Absent(x) == [k |-> "absent", v |-> x.v]

\* What strptime(...).timestamp() leaves in place of a text.
Timestamp(x) == IF x.k = "val" THEN [k |-> "val", v |-> "timestamp"] ELSE x

\* The fields of doc as entry_to_act changes them, up to the statement
\* that raises: lat and lon popped (lines 91-94), state popped (104),
\* updated parsed (105-109), page popped (110-111), access_time parsed
\* (112-115).  (Keys added to doc are in EntryDocKeys.)
DocFields(doc, failure) ==
    LET d1 == [doc EXCEPT !.lat = Absent(@), !.lon = Absent(@)]
        d2 == [d1 EXCEPT !.state = Absent(@)]
        d3 == [d2 EXCEPT !.updated = Timestamp(@), !.page = Absent(@)]
        d4 == [d3 EXCEPT !.access_time = Timestamp(@)]
    IN CASE failure = "lookup" -> d1
         [] failure = "updated" -> d2
         [] failure = "access_time" -> d3
         [] OTHER -> d4

\* ElasticParse.entry_to_act(entry) of an instance with the given body_name;
\* lookup is how self.get_fips ends if it is called.  The first failure in
\* the order of the code is the one raised.  `entry` in the result is the
\* caller's entry after the call, and '_id' is self.gen_id(entry) of the
\* entry as it is when the returned dict is built.
EntryToAct(body_name, entry, lookup) ==
    LET point == EntryHasPoint(entry)
        copy == EntryCopy(entry)
        early ==
            CASE point /\ lookup = "error" -> "lookup"
              [] UpdatedParse(entry.updated) # "" -> "updated"
              [] Strptime(entry.access_time) # "" -> "access_time"
              [] OTHER -> ""
        fields == DocFields(copy.doc, early)
        after == IF copy.aliased THEN fields ELSE entry
        id == GenId(after)
        failure ==
            CASE early = "lookup" -> "RequestException"
              [] early = "updated" -> UpdatedParse(entry.updated)
              [] early = "access_time" -> Strptime(entry.access_time)
              [] id.raised # "" -> id.raised
              [] OTHER -> ""
        doc == [keys |-> EntryDocKeys(entry),
                coordinates |-> IF point THEN <<entry.lon.v, entry.lat.v>>
                                ELSE <<>>,
                fips |-> IF point THEN FipsKeys ELSE {}]
    IN [raised |-> failure,
        lookups |-> IF point THEN 1 ELSE 0,
        entry |-> after,
        action |-> IF failure # "" THEN NoAction
                   ELSE [keys |-> {"_index", "_type", "_id", body_name},
                         op_type |-> "",
                         id |-> id.id,
                         doc |-> doc]]

OpTypes == {"index", "create", "update"}

\* Every kind maps to '_source'.
BodyNameSource(op_type) == "_source"

\* {'index': '_source', 'create': '_source', 'update': 'doc'}.get(op_type)
BodyName(op_type) ==
    CASE op_type \in {"index", "create"} -> "_source"
      [] op_type = "update" -> "doc"
      [] OTHER -> "None"

\* ElasticParse.__init__(entries, op_type), statement by statement: the
\* client is created (line 44), then the kind is tested (line 46).
ParseInit(op_type) ==
    LET created == [client |-> TRUE, raised |-> "", op_type |-> "",
                    body_name |-> "", lookups |-> 0, action |-> NoAction]
    IN IF op_type \notin OpTypes
       THEN [created EXCEPT !.raised = "ValueError"]
       ELSE [created EXCEPT !.op_type = op_type,
                            !.body_name = BodyName(op_type)]

\* ElasticParse.gen_actions() over a list of one entry: the action of the
\* entry, then act.update({'_op_type': self.op_type}).
GenActions(self, entry, lookup) ==
    LET made == EntryToAct(self.body_name, entry, lookup)
    IN [self EXCEPT
           !.raised = made.raised,
           !.lookups = made.lookups,
           !.action = IF made.raised # "" THEN NoAction
                      ELSE [made.action EXCEPT
                                !.keys = @ \cup {"_op_type"},
                                !.op_type = self.op_type]]

\* The target fields of pg_to_es_county_config.
ConfigKeys ==
    {"access_time", "cases", "cases_female", "cases_male", "country",
     "county", "deaths", "hospitalized", "inconclusive", "lat", "lon",
     "monitored", "negative", "no_longer_monitored", "pending", "recovered",
     "scrape_group", "state", "tested", "updated"}

\* make_getter(key, convert)(data_point): the converted field, null when
\* the row has no such field or a null one.
MakeGetter(data_point, key) ==
    IF IsNone(data_point[key]) THEN [k |-> "null", v |-> data_point[key].v]
    ELSE data_point[key]

\* The test looks at the latitude only.
GeoCheckLatOnly(lat, lon) == ~IsNone(lat)

\* geo_check = all([lat_name in doc, doc.get(lat_name) is not None,
\*                  lon_name in doc, doc.get(lon_name) is not None])
\* doc holds every key of the config, 'lat' and 'lon' among them.
GeoCheck(lat, lon) ==
    /\ "lat" \in ConfigKeys /\ ~IsNone(lat)
    /\ "lon" \in ConfigKeys /\ ~IsNone(lon)

\* Pipe._transform_data_to_document(data_point)
TransformDataToDocument(data_point, lookup) ==
    LET lat == MakeGetter(data_point, "county_lat")
        lon == MakeGetter(data_point, "county_lon")
        point == GeoCheck(lat, lon)
        found == PipeGetFips(lat.v, lon.v, 1, FipsKeys)
    IN [raised |-> IF point /\ lookup = "error" THEN "RequestException"
                   ELSE "",
        lookups |-> IF point THEN 1 ELSE 0,
        doc |-> [keys |-> ConfigKeys
                          \cup (IF point THEN {"fips", "geometry"} ELSE {})
                          \cup {"provider", "createdAt"},
                 coordinates |-> IF point
                                 THEN <<<<"lat", lat.v>>, <<"lon", lon.v>>>>
                                 ELSE <<>>,
                 fips |-> IF point THEN found.keys ELSE {}]]

\* Pipe._op_type
PipeOpType == "index"

\* Pipe.gen_action_from_data(data_point): the values of the dict are
\* evaluated in the order written, '_id' before '_source'.
GenActionFromData(data_point, lookup) ==
    LET made == TransformDataToDocument(data_point, lookup)
        id == CountyGenId(data_point)
        failure == IF id.raised # "" THEN id.raised ELSE made.raised
    IN [client |-> FALSE, raised |-> failure, op_type |-> PipeOpType,
        body_name |-> "_source",
        lookups |-> IF id.raised # "" THEN 0 ELSE made.lookups,
        action |-> IF failure # "" THEN NoAction
                   ELSE [keys |-> {"_op_type", "_index", "_id", "_source"},
                         op_type |-> PipeOpType,
                         id |-> id.id,
                         doc |-> made.doc]]

Given == [k : {"val"}, v : {<<"a">>}]

TimeTexts == {"wellformed", "malformed"}

\* The entries handed to ElasticParse.
Entries ==
    [county : Given, scrape_group : Given, state : Opt({<<"a">>}, <<>>),
     lat : Opt(Coords, 0), lon : Opt(Coords, 0),
     access_time : Opt(TimeTexts, ""),
     updated : Opt(TimeTexts, "") \ {[k |-> "null", v |-> ""]},
     page : Opt({0}, 0) \ {[k |-> "null", v |-> 0]}]

\* The rows handed to Pipe.
DataPoints ==
    [country : Given, county_name : Given, state : Opt({<<"a">>}, <<>>),
     county_lat : Opt(Coords, 0), county_lon : Opt(Coords, 0),
     access_time : Opt(Coords, 0)]

\* The kinds a caller may pass: the three accepted ones and two others.
GivenOpTypes == OpTypes \cup {"delete", ""}

\* ElasticParse(entries, op_type)
Construct ==
    /\ op = "idle"
    /\ arg.fn = "ElasticParse"
    /\ res' = ParseInit(arg.op_type)
    /\ op' = IF res'.raised = "" THEN "constructed" ELSE "construct_failed"
    /\ UNCHANGED <<arg, pipeVars, fipsVars>>

\* parser.gen_actions()
CallGenActions ==
    /\ op = "constructed"
    /\ res' = GenActions(res, arg.entry, arg.lookup)
    /\ op' = "gen_actions"
    /\ UNCHANGED <<arg, pipeVars, fipsVars>>

\* parser.entry_to_act(entry)
CallEntryToAct ==
    /\ op = "constructed"
    /\ res' = EntryToAct(res.body_name, arg.entry, arg.lookup)
    /\ op' = "entry_to_act"
    /\ UNCHANGED <<arg, pipeVars, fipsVars>>

\* pipe.gen_action_from_data(data_point)
CallGenActionFromData ==
    /\ op = "idle"
    /\ arg.fn = "Pipe"
    /\ res' = GenActionFromData(arg.data_point, arg.lookup)
    /\ op' = "gen_action_from_data"
    /\ UNCHANGED <<arg, pipeVars, fipsVars>>

Lookups == {"ok", "error"}

ActStart ==
    /\ PipeIdle
    /\ FipsInit
    /\ \/ arg \in [fn : {"ElasticParse"}, op_type : GivenOpTypes,
                   entry : Entries, lookup : Lookups]
       \/ arg \in [fn : {"Pipe"}, data_point : DataPoints, lookup : Lookups]
    /\ res = <<>>
    /\ op = "idle"

ActNext ==
    \/ Construct
    \/ CallGenActions
    \/ CallEntryToAct
    \/ CallGenActionFromData

\* One record turned into an action, by ElasticParse or by Pipe.
ActSpec == ActStart /\ [][ActNext]_vars

\* ---- ElasticParse.send_actions ---------------------------------------

\* A bulk() fed by a lazy map: it has taken the actions before the failing
\* entry when the failure surfaces.
BulkOverLazyMap(ids, failing) ==
    [calls |-> 1,
     handed |-> IF failing = {} THEN ids
                ELSE SubSeq(ids, 1, (CHOOSE i \in failing :
                                        \A j \in failing : i <= j) - 1)]

\* bulk(self.client, actions): reached only when gen_actions() returned,
\* with the whole list.
Bulk(ids, failing) ==
    [calls |-> IF failing = {} THEN 1 ELSE 0,
     handed |-> IF failing = {} THEN ids ELSE <<>>]

\* ElasticParse.send_actions() of the instance self over entries, the i-th
\* entry's lookup ending as lookups[i] and the store answering as store.
\* list(map(self.entry_to_act, ...)) converts the entries in order and
\* stops at the first that raises.
SendActions(self, entries, lookups, store) ==
    LET made == [i \in DOMAIN entries |->
                    GenActions(self, entries[i], lookups[i])]
        failing == {i \in DOMAIN entries : made[i].raised # ""}
        first == IF failing = {} THEN Len(entries) + 1
                 ELSE CHOOSE i \in failing : \A j \in failing : i <= j
        ids == [i \in DOMAIN entries |-> made[i].action.id]
        sent == Bulk(ids, failing)
    IN [client |-> self.client, op_type |-> self.op_type,
        body_name |-> self.body_name,
        raised |-> IF failing # {} THEN made[first].raised
                   ELSE IF store = "error" THEN "BulkIndexError"
                   ELSE "",
        converted |-> first - 1,
        bulk_calls |-> sent.calls,
        handed |-> sent.handed]

\* Entries that differ in what makes their conversion fail: coordinates
\* (a lookup is made), the text of access_time, a null state.
SendEntries ==
    {e \in Entries :
        /\ e.lat \in {[k |-> "absent", v |-> 0], [k |-> "val", v |-> 0]}
        /\ e.lon = e.lat
        /\ e.access_time.k = "val"
        /\ e.state.k # "absent"
        /\ e.updated.k = "absent"
        /\ e.page.k = "absent"}

\* The lists of at most n entries, each with the end of its lookup.
RECURSIVE ListsUpTo(_, _)
ListsUpTo(S, n) ==
    IF n = 0 THEN {<<>>}
    ELSE ListsUpTo(S, n - 1)
            \cup {Append(q, x) : q \in {p \in ListsUpTo(S, n - 1) :
                                           Len(p) = n - 1}, x \in S}

\* parser.send_actions()
CallSendActions ==
    /\ op = "constructed"
    /\ res' = SendActions(res, [i \in DOMAIN arg.list |-> arg.list[i].entry],
                          [i \in DOMAIN arg.list |-> arg.list[i].lookup],
                          arg.store)
    /\ op' = "send_actions"
    /\ UNCHANGED <<arg, pipeVars, fipsVars>>

SendStart ==
    /\ PipeIdle
    /\ FipsInit
    /\ arg \in [fn : {"ElasticParse"}, op_type : GivenOpTypes,
                list : ListsUpTo([entry : SendEntries, lookup : Lookups],
                                 MaxEntries),
                store : Lookups]
    /\ res = <<>>
    /\ op = "idle"

SendNext ==
    \/ Construct
    \/ CallSendActions

\* A list of entries sent to the store by ElasticParse.
SendSpec == SendStart /\ [][SendNext]_vars


\* =====================================================================
\* Properties
\* =====================================================================

\* The number of records a drained reader of a fresh Pipe is to deliver.
Expected == IF limit = -1 THEN rows ELSE Min(limit, rows)

\* The first n rows in the order the cursor returns them.
FirstRows(n) == [i \in 1..n |-> i]

\* No invocation but g has pulled a record: transfer_count is g's doing.
OnlyRun(g) == \A h \in Runs \ {g} : run[h].yielded = <<>>

Range(q) == {q[i] : i \in 1..Len(q)}

StrictlyIncreasing(q) == \A i \in 1..(Len(q) - 1) : q[i] < q[i + 1]

RECURSIVE YieldedUpTo(_)
YieldedUpTo(n) == IF n = 0 THEN 0 ELSE Len(run[n].yielded) + YieldedUpTo(n - 1)

\* C1: an invocation that ended in a failure (of execute or fetchmany, or of
\* the transformation, the lookup or the bulk write while the reader was
\* suspended at a yield) has had pg_cursor.close() called on the cursor it
\* created.
C1_CursorClosedWhenFailed ==
    \A g \in Runs :
        run[g].pc = "FAILED" /\ run[g].cursor # "none" => run[g].cursor = "closed"

\* C2: a lazy sequence (of gen_data_source or of yield_flow) that its
\* consumer abandoned before it was exhausted has had the cursor it opened
\* closed.
C2_CursorClosedWhenAbandoned ==
    \A g \in Runs :
        run[g].pc = "abandoned" /\ run[g].cursor # "none" => run[g].cursor = "closed"

\* C3: on a fresh Pipe, a drained gen_data_source has yielded exactly the
\* first min(limit, rows) rows (all rows when limit = -1), whatever the
\* chunk size, and its cursor is closed.
C3_DrainedReaderYieldsMinLimitRows ==
    \A g \in Runs :
        (run[g].kind = "gen_data_source" /\ run[g].pc = "COMPLETE" /\ OnlyRun(g))
            => /\ run[g].yielded = FirstRows(Expected)
               /\ run[g].cursor = "closed"

\* C3 witness: a drained reader that stopped at limit = 1 inside a batch of
\* two rows.
C3_Witness ==
    \E g \in Runs :
        /\ run[g].kind = "gen_data_source" /\ run[g].pc = "COMPLETE" /\ OnlyRun(g)
        /\ limit = 1 /\ chunk_size = 2 /\ rows >= 2
        /\ Len(run[g].yielded) = 1

\* C4: in every step transfer_count does not decrease, and with a limit
\* L >= 0 it stays at most L, whatever invocations of the Pipe's methods
\* are interleaved.
C4_TransferCountMonotoneAndBounded ==
    [][/\ transfer_count' >= transfer_count
       /\ (limit >= 0 => transfer_count' <= limit)]_vars

\* C5: whenever the consumer holds a record just yielded or a progress line
\* just emitted, transfer_count is the number of records gen_data_source
\* has yielded so far.
C5_TransferCountIsRecordsYielded ==
    \A g \in Runs :
        run[g].pc = "suspended" => transfer_count = YieldedUpTo(MaxRuns)

\* C6: on a fresh Pipe the counts of the progress lines of yield_flow are
\* strictly increasing, and once yield_flow is fully consumed over N >= 1
\* records the last line carries N.
C6_ProgressCountsIncreaseToN ==
    \A g \in Runs :
        (run[g].kind = "yield_flow" /\ OnlyRun(g))
            => /\ StrictlyIncreasing(run[g].lines)
               /\ (run[g].pc = "COMPLETE" /\ Len(run[g].yielded) >= 1)
                     => /\ run[g].lines # <<>>
                        /\ run[g].lines[Len(run[g].lines)] = Len(run[g].yielded)

\* C6 witness: a fully consumed yield_flow that emitted several lines.
C6_Witness ==
    \E g \in Runs :
        /\ run[g].kind = "yield_flow" /\ run[g].pc = "COMPLETE" /\ OnlyRun(g)
        /\ Len(run[g].lines) >= 2

\* C7 as stated: a fully consumed yield_flow on a fresh Pipe has emitted a
\* line for every value 1..N that transfer_count took.
C7_EveryCountReported ==
    \A g \in Runs :
        (run[g].kind = "yield_flow" /\ run[g].pc = "COMPLETE" /\ OnlyRun(g))
            => \A v \in 1..transfer_count : v \in Range(run[g].lines)

\* C7 as amended: a fully consumed yield_flow on a fresh Pipe has emitted a
\* line for exactly the counts at which a bulk batch was flushed: the
\* multiples of chunk_size up to N, and N.
C7_CountsReportedPerBatch ==
    \A g \in Runs :
        (run[g].kind = "yield_flow" /\ run[g].pc = "COMPLETE" /\ OnlyRun(g))
            => /\ transfer_count = Len(run[g].yielded)
               /\ Range(run[g].lines) =
                     {v \in 1..transfer_count :
                         v % chunk_size = 0 \/ v = transfer_count}

\* C7 witness: a fully consumed yield_flow with batches of two over at least
\* two records.
C7_Witness ==
    \E g \in Runs :
        /\ run[g].kind = "yield_flow" /\ run[g].pc = "COMPLETE" /\ OnlyRun(g)
        /\ chunk_size = 2
        /\ Len(run[g].yielded) >= 2

\* C8: in yield_flow and in auto_flow the actions are sent to the store in
\* the order the cursor returned their rows: what was submitted is always
\* the first rows of the result, in order.
C8_SubmittedInFetchOrder ==
    \A g \in Runs :
        run[g].kind \in {"yield_flow", "auto_flow"}
            => run[g].submitted = FirstRows(Len(run[g].submitted))

\* C8 witness: a yield_flow and an auto_flow that each submitted several
\* actions.
C8_Witness ==
    \E g, h \in Runs :
        /\ run[g].kind = "yield_flow" /\ Len(run[g].submitted) >= 2
        /\ run[h].kind = "auto_flow" /\ Len(run[h].submitted) >= 2

\* C9: a lookup whose every request failed surfaces the error after exactly
\* 5 requests, having slept 1, 2, 4, 8, 16 between them.
C9_FiveAttemptsThenFatal ==
    (f_pc = "raised" /\ \A i \in 1..Len(log) : log[i] # "ok")
        => calls = 5 /\ delays = <<1, 2, 4, 8, 16>>

\* C10: every call of the lookup ends: it returns or raises, whatever the
\* failures of its requests.
C10_LookupTerminates == <>(f_pc \in {"returned", "raised"})

\* The keys get_fips is to return for a scope: 0 State, 1 State and County,
\* 2 State, County and Block.
KeysOfScope(scope) ==
    CASE scope = 0 -> {"State"}
      [] scope = 1 -> {"State", "County"}
      [] scope = 2 -> {"State", "County", "Block"}

\* C11: for every successful lookup response, get_fips(lat, lon, scope) does
\* not fail and returns exactly the keys of the response that are at the scope
\* or coarser: finer keys removed, coarser keys kept.
C11_ScopeKeepsCoarserKeys ==
    op = "get_fips" =>
        /\ res.raised = ""
        /\ res.keys = arg.resj \cap KeysOfScope(arg.scope)

\* Every identity field is present and not null.
Populated(a) == \A key \in DOMAIN a : ~IsNone(a[key])

\* C12: two records whose identity fields differ in at least one field get
\* different identifiers (different seeds), for ElasticParse.gen_id and for
\* county_gen_id.  Stated for records that hold every identity field, none
\* of them null.
C12_DifferentIdentityDifferentId ==
    /\ (op = "gen_id" /\ Populated(arg.ident)) =>
           \A other \in ParseIdents :
               (Populated(other) /\ other # arg.ident)
                   => GenId(other).id # res[1].id
    /\ (op = "county_gen_id" /\ Populated(arg.ident)) =>
           \A other \in CountyIdents :
               (Populated(other) /\ other # arg.ident)
                   => CountyGenId(other).id # res[1].id

\* C13: the identifier is a function of the identity fields only: records
\* that agree on every identity field get the same identifier (or the same
\* failure) whatever their other fields are and whenever it is computed.
C13_IdDependsOnIdentityOnly ==
    op \in {"gen_id", "county_gen_id"} =>
        \A i, j \in DOMAIN res :
            /\ res[i].raised = res[j].raised
            /\ res[i].id = res[j].id

\* An identifier was computed twice, for records with the same identity
\* fields and different counts.
C13_Witness ==
    /\ op = "gen_id"
    /\ Len(res) = 2
    /\ res[1].raised = ""
    /\ res[1].cases # res[2].cases

\* C14: two complete runs of the pipeline on the same Pipe over the unchanged
\* source, the second started after the first completed and no other
\* invocation made, submit the same set of identifiers.  auto_flow returns
\* only when its run is over, so two auto_flow calls never overlap.
C14_RerunSubmitsSameIds ==
    \A g, h \in Runs :
        (/\ g < h
         /\ run[g].kind = "auto_flow" /\ run[g].pc = "COMPLETE"
         /\ run[h].kind = "auto_flow" /\ run[h].pc = "COMPLETE"
         /\ \A k \in Runs \ {g, h} : run[k].pc = "new")
            => Range(run[g].submitted) = Range(run[h].submitted)

\* C15: identifier generation never fails, whichever identity fields of the
\* record are absent or null: every call returns an identifier.
C15_IdNeverFails ==
    op \in {"gen_id", "county_gen_id"} =>
        \A i \in DOMAIN res : res[i].raised = ""

C17_InvalidKindFailsBeforeClient ==
    /\ op = "constructed" => arg.op_type \in {"index", "create", "update"}
    /\ op = "construct_failed" =>
           /\ arg.op_type \notin {"index", "create", "update"}
           /\ res.raised = "ValueError"
           /\ ~res.client

\* The payload key of an operation kind.
PayloadKey(kind) == IF kind = "update" THEN "doc" ELSE "_source"

\* C18: every action produced carries the configured operation kind and
\* exactly one payload key, '_source' for index and create, 'doc' for update;
\* for ElasticParse.gen_actions and for Pipe.gen_action_from_data.
C18_ActionCarriesKindAndOnePayload ==
    /\ (op = "gen_actions" /\ res.raised = "") =>
           /\ "_op_type" \in res.action.keys
           /\ res.action.op_type = arg.op_type
           /\ res.action.keys \cap {"_source", "doc"} = {PayloadKey(arg.op_type)}
    /\ (op = "gen_action_from_data" /\ res.raised = "") =>
           /\ "_op_type" \in res.action.keys
           /\ res.action.op_type = PipeOpType
           /\ res.action.keys \cap {"_source", "doc"} = {PayloadKey(PipeOpType)}

\* gen_actions made an update action.
C18_Witness ==
    /\ op = "gen_actions"
    /\ res.raised = ""
    /\ arg.op_type = "update"
    /\ "doc" \in res.action.keys

\* C19: in gen_data_source every fetchmany is issued with every row fetched
\* before it already yielded, not after a fetch that returned an empty batch,
\* not after transfer_count has reached the limit, and for exactly chunk_size
\* rows.
C19_FetchAfterDrainWithinLimit ==
    \A g \in Runs :
        \A o \in run[g].fetches :
            /\ o.unyielded = 0
            /\ ~o.after_empty
            /\ ~o.limit_reached
            /\ o.asked = chunk_size

\* A drained reader that fetched batch after batch of one row, up to the
\* empty one.
C19_Witness ==
    \E g \in Runs :
        /\ run[g].kind = "gen_data_source" /\ run[g].pc = "COMPLETE"
        /\ run[g].fetches # {}
        /\ limit = -1 /\ chunk_size = 1
        /\ Len(run[g].yielded) = 2

\* The run g of the pipeline is over: cursor closed, and the actions
\* submitted are those of the records the reader yielded, each once.
Completed(g) ==
    /\ run[g].pc = "COMPLETE"
    /\ run[g].cursor = "closed"
    /\ run[g].submitted = run[g].yielded

\* C20: with a finite source, lookups that succeed and a store that accepts
\* every batch, a run of auto_flow or a consumed yield_flow eventually
\* reaches COMPLETE, and in COMPLETE the cursor is closed and every record
\* the reader yielded has had its action submitted exactly once.
C20_FlowCompletes ==
    \A g \in Runs :
        /\ [](run[g].pc = "COMPLETE" => Completed(g))
        /\ (run[g].kind \in {"yield_flow", "auto_flow"}) ~> Completed(g)

\* A yield_flow that ended after submitting two batches of one action.
C20_Witness ==
    \E g \in Runs :
        /\ run[g].kind = "yield_flow"
        /\ Completed(g)
        /\ chunk_size = 1
        /\ Len(run[g].submitted) = 2

\* C21: on a fresh Pipe, when yield_flow has just emitted a progress line
\* the count it reports is the number of actions flushed to the store so far
\* (the record pulled to close a full batch is not counted), and no line ever
\* reports more than has been submitted.
C21_LineCountsFlushedActions ==
    \A g \in Runs :
        (run[g].kind = "yield_flow" /\ OnlyRun(g))
            => /\ run[g].pc = "suspended" =>
                      run[g].lines[Len(run[g].lines)] = Len(run[g].submitted)
               /\ \A i \in 1..Len(run[g].lines) :
                      run[g].lines[i] <= Len(run[g].submitted)

\* A yield_flow suspended at its first line: one batch of one action was
\* flushed, and the second record, pulled to close the batch, is in hand.
C21_Witness ==
    \E g \in Runs :
        /\ run[g].kind = "yield_flow" /\ OnlyRun(g)
        /\ run[g].pc = "suspended"
        /\ chunk_size = 1
        /\ run[g].lines = <<1>>
        /\ Len(run[g].yielded) = 2
        /\ Len(run[g].submitted) = 1

\* What the invocation g has done to the database and the store.
Effects(g) ==
    <<run[g].cursor, run[g].fetches, run[g].yielded, run[g].submitted>>

\* C22: yield_flow is driven by its consumer.  The call that creates the
\* generator opens no cursor, fetches no row and submits nothing, and so it
\* stays until the first message is requested; afterwards a record is pulled
\* or a batch submitted only in a step in which the consumer requests the
\* next message of that generator.
C22_DrivenByConsumer ==
    [][\A g \in Runs :
          /\ (run[g].pc = "new" /\ run'[g].kind = "yield_flow") =>
                 /\ run'[g].pc = "created"
                 /\ run'[g].cursor = "none"
                 /\ run'[g].fetches = {}
                 /\ run'[g].yielded = <<>>
                 /\ run'[g].submitted = <<>>
          /\ (run[g].kind = "yield_flow" /\ Effects(g)' # Effects(g)) =>
                 NextMessage(g)]_vars

\* One generator has submitted a batch and waits for its consumer while
\* another, created before it was asked anything, has touched nothing.
C22_Witness ==
    \E g, h \in Runs :
        /\ run[g].kind = "yield_flow" /\ run[g].pc = "suspended"
        /\ Len(run[g].submitted) >= 1
        /\ run[h].kind = "yield_flow" /\ run[h].pc = "created"
        /\ run[h].cursor = "none"

\* The conversion of the i-th entry of the list fails.
ConversionFails(i) ==
    EntryToAct("_source", arg.list[i].entry, arg.list[i].lookup).raised # ""

\* C23: when the conversion of any entry of the list fails, send_actions
\* raises without invoking the bulk write: no action is handed to the store,
\* not even those of the entries before the failing one.
C23_NoBulkWhenConversionFails ==
    op = "send_actions" =>
        /\ (\E i \in DOMAIN arg.list : ConversionFails(i)) =>
               /\ res.raised \notin {"", "BulkIndexError"}
               /\ res.bulk_calls = 0
               /\ res.handed = <<>>
        /\ (\A i \in DOMAIN arg.list : ~ConversionFails(i)) =>
               /\ res.bulk_calls = 1
               /\ Len(res.handed) = Len(arg.list)

\* The second of two entries failed to convert after the first had been
\* converted.
C23_Witness ==
    /\ op = "send_actions"
    /\ Len(arg.list) = 2
    /\ ~ConversionFails(1)
    /\ ConversionFails(2)
    /\ res.converted = 1
    /\ res.bulk_calls = 0

\* C24: entry_to_act leaves the entry it is given unchanged, whether it
\* returns or raises, and the identifier of the action it returns is gen_id
\* of that unmodified entry.
C24_EntryUnchangedIdOfOriginal ==
    op = "entry_to_act" =>
        /\ res.entry = arg.entry
        /\ res.raised = "" => res.action.id = GenId(arg.entry).id

\* An action was made of an entry holding lat, lon, state and page; its
\* document holds none of these keys.
C24_Witness ==
    /\ op = "entry_to_act"
    /\ res.raised = ""
    /\ {"lat", "lon", "state", "page"} \subseteq KeysOf(arg.entry)
    /\ res.action.doc.keys \cap {"lat", "lon", "state", "page"} = {}
    /\ "province/state" \in res.action.doc.keys

====
